---- MODULE Spec2Model ----
(***************************************************************************)
(* CircleClient (src/polaris_circle/client.py): one client object, its     *)
(* requests.Session, and the remote service it talks to.                   *)
(*                                                                         *)
(* The client is used by one caller at a time: an operation is called,     *)
(* blocks inside session.get / session.post while the transport makes its  *)
(* attempts, and returns or raises.  An operation's action is the whole    *)
(* method up to the blocking call; the attempts of the transport and the   *)
(* answers of the remote service are the steps in between.                 *)
(*                                                                         *)
(* An Optional[...] argument is a set: {} is None, {v} is the value v.     *)
(***************************************************************************)
EXTENDS Naturals, FiniteSets, Sequences

\* ----------------------------------------------------------------- bounds
MaxRetries == 2   \* num_retries, and an injected session's own retry total
MaxTimeout == 1   \* the configured timeout, in clock ticks
MaxHops    == 1   \* redirect responses the remote service gives in one call

\* How long the model watches an attempt that has no timeout.
MaxWait == MaxTimeout + 1

\* ------------------------------------------------------------- input sets
Keys       == {"k1", "k2"}
OtherKey(k) == IF k = "k1" THEN "k2" ELSE "k1"
WalletArgs == {{}, {""}, {"w1"}}
DestArgs   == {{}, {"d1"}}
SourceArgs == {{}, {"s1"}}
MemoArgs   == {{}, {"memo"}}
ADatetime  == <<2023, 1, 15, 8, 30, 0, 0>>

\* The arguments of get_transfers: every combination of the three wallet
\* filters, and some with the time window and the page size as well.
Query(w, d, s, f, t, p) ==
    [op |-> "get_transfers", from_datetime |-> f, to_datetime |-> t,
     page_size |-> p, wallet_id |-> w, destination_wallet_id |-> d,
     source_wallet_id |-> s]
TransferQueries ==
    {Query(w, d, s, {}, {}, {}) :
        w \in WalletArgs, d \in DestArgs, s \in SourceArgs}
    \cup {Query({}, {}, {}, {ADatetime}, {ADatetime}, {50}),
          Query({}, {"d1"}, {}, {ADatetime}, {}, {0}),
          Query({"w1"}, {"d1"}, {}, {ADatetime}, {ADatetime}, {50})}

\* What the transport does during one call.
\*   any          whatever happens, attempt by attempt
\*   two_then_ok  the first two attempts fail to connect, the third succeeds
\*   dead         every attempt fails to connect
Plans == {"any", "two_then_ok", "dead"}

VARIABLES
    config,     \* self.api_key ... self.backoff_factor
    session,    \* self._session: who built it, its adapter's retry total
    closed,     \* self._session.close() has been called
    scope,      \* the with block: "out" | "in" | "left" (it has just been left)
    caller,     \* what left the with block, and what the block's caller saw
    pc,         \* "idle" | "send" | "waiting" | "done"
    cur,        \* the operation being executed and its arguments
    plan,       \* the transport's disposition during this call
    req,        \* the request the session is sending now
    total,      \* Retry.total left for the request being sent
    attempts,   \* attempts made for the request being sent
    hops,       \* redirects followed in this call
    posted,     \* the (path, body) of every POST attempt of this call
    waited,     \* ticks the current attempt has waited for the response
    windows,    \* how long each timed-out attempt of this call had waited
    result,     \* what the operation gives its caller
    store,      \* remote service: the idempotency keys it has created for
    made        \* remote service: resources created during this call

vars == <<config, session, closed, scope, caller, pc, cur, plan, req, total,
          attempts, hops, posted, waited, windows, result, store, made>>

\* ------------------------------------------------------------ construction
ApiKey   == "key"
ApiUrl   == "https://api"
WalletId == "w0"

\* Retry(total=num_retries, backoff_factor=..., redirect=0,
\*       allowed_methods={GET, POST}, raise_on_status=False).
\* Left at urllib3's defaults: status_forcelist (empty) and
\* respect_retry_after_header (True).
RetryOneMore(num_retries, backoff_factor) ==
    [total |-> num_retries + 1, backoff_factor |-> backoff_factor,
     redirect |-> 0, allowed_methods |-> {"GET", "POST"},
     raise_on_status |-> FALSE, status_forcelist |-> {},
     respect_retry_after_header |-> TRUE]
Retry(num_retries, backoff_factor) ==
    [total |-> num_retries, backoff_factor |-> backoff_factor, redirect |-> 0,
     allowed_methods |-> {"GET", "POST"}, raise_on_status |-> FALSE,
     status_forcelist |-> {}, respect_retry_after_header |-> TRUE]

\* The session the constructor builds when none is injected: the headers are
\* set and the adapter with the retry policy is mounted.
SessionUnmounted(retry) ==
    [injected |-> FALSE, retries |-> 0, respect_retry_after |-> TRUE,
     authorized |-> TRUE]
NewSession(retry) ==
    [injected |-> FALSE, retries |-> retry.total,
     respect_retry_after |-> retry.respect_retry_after_header,
     authorized |-> TRUE]

\* A session the caller configured (session is not None): the retry policy
\* and the headers built by the constructor are left unused, and the session
\* has whatever retry total its own adapter was given: none, as a plain
\* Session() has, or a larger one.
InjectedRetries == {0, MaxRetries}
InjectedSession(retries) ==
    [injected |-> TRUE, retries |-> retries, respect_retry_after |-> TRUE,
     authorized |-> FALSE]

\* timeout: None, or a duration.
Timeouts == {{}, {MaxTimeout}}

Configs ==
    {[api_key |-> ApiKey, url |-> ApiUrl, wallet_id |-> WalletId,
      timeout |-> t, pool_size |-> "DEFAULT_POOLSIZE", num_retries |-> n,
      backoff_factor |-> "0.5"] : t \in Timeouts, n \in 0..MaxRetries}

\* -------------------------------------------------------------- operations
\* Python's truth of an Optional[str] and of an Optional[int].
Truthy(opt) == opt # {} /\ opt # {""}
TruthyInt(opt) == opt # {} /\ opt # {0}

\* The check of get_transfers: wallet_id with either of the other two.
ParamConflictBoth(wallet_id, destination_wallet_id, source_wallet_id) ==
    Truthy(wallet_id)
    /\ Truthy(destination_wallet_id) /\ Truthy(source_wallet_id)
ParamConflict(wallet_id, destination_wallet_id, source_wallet_id) ==
    Truthy(wallet_id)
    /\ (Truthy(destination_wallet_id) \/ Truthy(source_wallet_id))

\* datetime.strftime(d, CIRCLE_DATETIME_FORMAT): the datetime under the format.
CIRCLE_DATETIME_FORMAT == "%Y-%m-%dT%H:%M:%S.%fZ"
Strftime(d) == <<CIRCLE_DATETIME_FORMAT, d>>

\* request_args of get_transfers: a parameter is sent when its argument is
\* truthy ({} is a parameter left out).
Param(opt) == IF Truthy(opt) THEN opt ELSE {}
ParamInt(opt) == IF TruthyInt(opt) THEN opt ELSE {}
RequestArgs(q) ==
    [from |-> {Strftime(d) : d \in q.from_datetime},
     to |-> {Strftime(d) : d \in q.to_datetime},
     walletId |-> Param(q.wallet_id),
     destinationWalletId |-> Param(q.destination_wallet_id),
     sourceWalletId |-> Param(q.source_wallet_id),
     pageSize |-> ParamInt(q.page_size)]
NoArgs ==
    [from |-> {}, to |-> {}, walletId |-> {}, destinationWalletId |-> {},
     sourceWalletId |-> {}, pageSize |-> {}]

\* memo or ""
MemoOrEmpty(memo) == IF Truthy(memo) THEN CHOOSE m \in memo : TRUE ELSE ""

\* The json= payloads: idempotencyKey first.
TransferBody(wallet_id, idempotency_key, account, amount, memo) ==
    <<idempotency_key, "wallet", wallet_id, "blockchain", account, "XLM",
      MemoOrEmpty(memo), amount, "USD">>
AddressBody(idempotency_key) == <<idempotency_key, "USD", "XLM">>

NoCall   == [op |-> "none"]
NoReq    == [method |-> "none", path |-> <<>>, params |-> NoArgs, body |-> <<>>]
NoResult == [kind |-> "none", what |-> "none"]
NoExit   == [raised |-> "none", seen |-> "none"]

Init ==
    /\ config \in Configs
    /\ \/ session = NewSession(Retry(config.num_retries, config.backoff_factor))
       \/ \E r \in InjectedRetries : session = InjectedSession(r)
    /\ closed = FALSE
    /\ scope = "out"
    /\ caller = NoExit
    /\ pc = "idle"
    /\ cur = NoCall
    /\ plan = "any"
    /\ req = NoReq
    /\ total = 0
    /\ attempts = 0
    /\ hops = 0
    /\ posted = {}
    /\ waited = 0
    /\ windows = {}
    /\ result = NoResult
    /\ store = {}
    /\ made = 0

\* The client is used again after a with block: that block is history.
Used ==
    /\ scope' = IF scope = "left" THEN "out" ELSE scope
    /\ caller' = NoExit

\* A call reaches session.get / session.post; the transport's disposition is
\* the environment's choice.
Begin(call, request) ==
    /\ pc = "idle"
    /\ cur' = call
    /\ req' = request
    /\ plan' \in Plans
    /\ pc' = "send"
    /\ total' = session.retries
    /\ Used
    /\ UNCHANGED <<config, session, closed, attempts, hops, posted, waited,
                   windows, result, store, made>>

\* A call that raises before the session is used.
Raise(call, error) ==
    /\ pc = "idle"
    /\ cur' = call
    /\ pc' = "done"
    /\ result' = [kind |-> "raised", what |-> error]
    /\ Used
    /\ UNCHANGED <<config, session, closed, plan, req, total, attempts, hops,
                   posted, waited, windows, store, made>>

\* A variant of get_transfers that keeps the wallet filter in self.wallet_id.
get_transfers_keeping_filter ==
    \E q \in TransferQueries :
        /\ pc = "idle"
        /\ cur' = q
        /\ config' = [config EXCEPT
               !.wallet_id = IF Truthy(q.wallet_id)
                             THEN CHOOSE x \in q.wallet_id : TRUE ELSE @]
        /\ IF ParamConflict(q.wallet_id, q.destination_wallet_id,
                            q.source_wallet_id)
           THEN /\ pc' = "done"
                /\ result' = [kind |-> "raised", what |-> "ValueError"]
                /\ UNCHANGED <<plan, req, total>>
           ELSE /\ pc' = "send"
                /\ req' = [method |-> "GET",
                           path |-> <<config.url, "transfers">>,
                           params |-> RequestArgs(q), body |-> <<>>]
                /\ plan' \in Plans
                /\ total' = session.retries
                /\ UNCHANGED result
        /\ Used
        /\ UNCHANGED <<session, closed, attempts, hops, posted, waited,
                       windows, store, made>>

get_transfers ==
    \E q \in TransferQueries :
        IF ParamConflict(q.wallet_id, q.destination_wallet_id,
                         q.source_wallet_id)
        THEN Raise(q, "ValueError")
        ELSE Begin(q, [method |-> "GET", path |-> <<config.url, "transfers">>,
                       params |-> RequestArgs(q), body |-> <<>>])

get_transfer ==
    Begin([op |-> "get_transfer", transfer_id |-> "t1"],
          [method |-> "GET", path |-> <<config.url, "transfers", "t1">>,
           params |-> NoArgs, body |-> <<>>])

create_transfer ==
    \E k \in Keys, m \in MemoArgs :
        Begin([op |-> "create_transfer", idempotency_key |-> k,
               account |-> "GACC", amount |-> "12.50", memo |-> m],
              [method |-> "POST", path |-> <<config.url, "transfers">>,
               params |-> NoArgs,
               body |-> TransferBody(config.wallet_id, k, "GACC", "12.50", m)])

get_wallet ==
    Begin([op |-> "get_wallet"],
          [method |-> "GET",
           path |-> <<config.url, "wallets", config.wallet_id>>,
           params |-> NoArgs, body |-> <<>>])

create_address ==
    \E k \in Keys :
        Begin([op |-> "create_address", idempotency_key |-> k],
              [method |-> "POST",
               path |-> <<config.url, "wallets", config.wallet_id, "addresses">>,
               params |-> NoArgs, body |-> AddressBody(k)])

\* --------------------------------------------------------------- transport
\* Retry.increment followed by is_exhausted: the total is decremented and the
\* policy is exhausted once it falls below zero.
Exhausted(t) == t = 0

\* Retry.is_retry for a response: no status_forcelist, so only a response with
\* a Retry-After header (413, 429, 503) is retried, while total is not zero
\* and respect_retry_after_header holds.
IsRetry(t) == t > 0 /\ session.respect_retry_after

\* timeout=self.timeout goes with every call, and requests gives it to each
\* attempt (n: the attempt's number) as its connect and its read timeout.
WindowFirstOnly(timeout, n) == IF n > 1 THEN 0 ELSE timeout
Window(timeout, n) == timeout

\* The body of attempt number n: json= is serialized once, when the request is
\* prepared, and the prepared request is what every retry sends.
RekeyedBody(body, n) ==
    IF n = 0 \/ body = <<>> THEN body ELSE <<OtherKey(body[1])>> \o Tail(body)
WireBody(body, n) == body

OnWire ==
    IF req.method = "POST"
    THEN {<<req.path, WireBody(req.body, attempts)>>}
    ELSE {}

Finish(r) ==
    /\ pc' = "done"
    /\ result' = r
    /\ UNCHANGED <<req, total, hops>>

\* A failed attempt: retried while the policy allows, else the error is raised
\* (requests.ConnectionError and its kin).
FailedAttempt ==
    IF Exhausted(total)
    THEN Finish([kind |-> "raised", what |-> "ConnectionError"])
    ELSE /\ pc' = "send"
         /\ total' = total - 1
         /\ UNCHANGED <<req, hops, result>>

\* The connection cannot be made: nothing reaches the remote service.
ConnectionFails ==
    /\ pc = "send"
    /\ plan = "two_then_ok" => attempts < 2
    /\ attempts' = attempts + 1
    /\ posted' = posted \cup OnWire
    /\ FailedAttempt
    /\ UNCHANGED <<config, session, closed, scope, caller, cur, plan, waited,
                   windows, store, made>>

\* The remote service handles a create: one resource per idempotency key.
Serve(body) ==
    IF body[1] \in store
    THEN UNCHANGED <<store, made>>
    ELSE /\ store' = store \cup {body[1]}
         /\ made' = made + 1

\* The request reaches the remote service.
Delivered ==
    /\ pc = "send"
    /\ plan # "dead"
    /\ plan = "two_then_ok" => attempts >= 2
    /\ attempts' = attempts + 1
    /\ posted' = posted \cup OnWire
    /\ UNCHANGED <<config, session, closed, scope, caller, cur, plan>>

\* A 2xx arrives and .json() parses it (or cannot).
Responds ==
    \E json \in BOOLEAN :
        /\ Delivered
        /\ plan = "two_then_ok" => json
        /\ IF req.method = "POST"
           THEN Serve(WireBody(req.body, attempts))
           ELSE UNCHANGED <<store, made>>
        /\ Finish(IF json THEN [kind |-> "returned", what |-> "2xx"]
                  ELSE [kind |-> "raised", what |-> "JSONDecodeError"])
        /\ UNCHANGED <<waited, windows>>

\* A 4xx or 5xx without Retry-After arrives: no status is in the policy's
\* status_forcelist and nothing raises on the status; .json() parses the body.
RespondsError ==
    \E json \in BOOLEAN :
        /\ Delivered
        /\ plan = "any"
        /\ Finish(IF json THEN [kind |-> "returned", what |-> "4xx"]
                  ELSE [kind |-> "raised", what |-> "JSONDecodeError"])
        /\ UNCHANGED <<waited, windows, store, made>>

\* A 302 arrives.  session.get / session.post are called without
\* allow_redirects, so requests follows the Location itself, with a GET and
\* no body, through the same adapter and a fresh copy of its retry policy;
\* the policy's redirect=0 is not consulted, since requests asks urllib3 not
\* to handle redirects.
Redirects ==
    /\ Delivered
    /\ plan = "any"
    /\ hops < MaxHops
    /\ pc' = "send"
    /\ req' = [method |-> "GET", path |-> <<"Location">>, params |-> NoArgs,
               body |-> <<>>]
    /\ hops' = hops + 1
    /\ total' = session.retries
    /\ UNCHANGED <<result, waited, windows, store, made>>

\* A 413/429/503 with Retry-After arrives: urllib3 sleeps and sends again
\* while the total allows; with raise_on_status=False the last such response
\* is returned.
RetryAfter ==
    /\ Delivered
    /\ plan = "any"
    /\ IF IsRetry(total)
       THEN /\ pc' = "send"
            /\ total' = total - 1
            /\ UNCHANGED <<req, hops, result>>
       ELSE Finish([kind |-> "returned", what |-> "503"])
    /\ UNCHANGED <<waited, windows, store, made>>

\* No response: the caller waits.  A create may have been processed all the
\* same.
Silent ==
    \E processed \in BOOLEAN :
        /\ Delivered
        /\ plan = "any"
        /\ IF processed /\ req.method = "POST"
           THEN Serve(WireBody(req.body, attempts))
           ELSE UNCHANGED <<store, made>>
        /\ pc' = "waiting"
        /\ waited' = 0
        /\ UNCHANGED <<req, total, hops, result, windows>>

Ceiling ==
    IF config.timeout = {}
    THEN MaxWait
    ELSE Window(CHOOSE t \in config.timeout : TRUE, attempts)

Tick ==
    /\ pc = "waiting"
    /\ waited < Ceiling
    /\ waited' = waited + 1
    /\ UNCHANGED <<config, session, closed, scope, caller, pc, cur, plan, req,
                   total, attempts, hops, posted, windows, result, store, made>>

\* The attempt's window is over: a read timeout, which the policy retries.
TimesOut ==
    /\ pc = "waiting"
    /\ config.timeout # {}
    /\ waited >= Ceiling
    /\ windows' = windows \cup {waited}
    /\ waited' = 0
    /\ FailedAttempt
    /\ UNCHANGED <<config, session, closed, scope, caller, cur, plan,
                   attempts, posted, store, made>>

\* The call is over: the caller has the value, or has caught the exception.
Reset ==
    /\ pc' = "idle"
    /\ cur' = NoCall
    /\ plan' = "any"
    /\ req' = NoReq
    /\ total' = 0
    /\ attempts' = 0
    /\ hops' = 0
    /\ posted' = {}
    /\ waited' = 0
    /\ windows' = {}
    /\ result' = NoResult
    /\ made' = 0

Return ==
    /\ pc = "done"
    /\ Reset
    /\ UNCHANGED <<config, session, closed, scope, caller, store>>

\* ---------------------------------------------------------------- lifecycle
Frame ==
    UNCHANGED <<config, session, pc, cur, plan, req, total, attempts, hops,
                posted, waited, windows, result, store, made>>

\* Session.close() clears the adapters' connection pools; the session keeps
\* its adapters and opens a new pool for the next request.
close ==
    /\ pc = "idle"
    /\ closed' = TRUE
    /\ Used
    /\ Frame

__enter__ ==
    /\ pc = "idle"
    /\ scope # "in"
    /\ scope' = "in"
    /\ caller' = NoExit
    /\ UNCHANGED closed
    /\ Frame

\* What __exit__ returns: None, so the with statement re-raises.
ExitSwallows == TRUE
ExitReturn == FALSE

\* The with block is left: by its body ending, or by the exception of an
\* operation that the body does not catch.
__exit__ ==
    \E exc \in {"none", result.what} :
        /\ scope = "in"
        /\ \/ pc = "idle" /\ exc = "none"
           \/ pc = "done" /\ result.kind = "raised" /\ exc = result.what
        /\ closed' = TRUE
        /\ scope' = "left"
        /\ caller' = [raised |-> exc,
                      seen |-> IF ExitReturn THEN "none" ELSE exc]
        /\ Reset
        /\ UNCHANGED <<config, session, store>>

Next ==
    \/ get_transfers
    \/ get_transfer
    \/ create_transfer
    \/ get_wallet
    \/ create_address
    \/ ConnectionFails
    \/ Responds
    \/ RespondsError
    \/ Redirects
    \/ RetryAfter
    \/ Silent
    \/ Tick
    \/ TimesOut
    \/ Return
    \/ close
    \/ __enter__
    \/ __exit__

Spec == Init /\ [][Next]_vars

\* ------------------------------------------------------------------ claims
\* What each operation is expected to send, from its own arguments and the
\* constructor's arguments alone.
ExpectedRequest(call) ==
    CASE call.op = "get_transfers" ->
           [method |-> "GET", path |-> <<ApiUrl, "transfers">>,
            params |-> [from |-> {<<CIRCLE_DATETIME_FORMAT, d>> :
                                        d \in call.from_datetime},
                        to |-> {<<CIRCLE_DATETIME_FORMAT, d>> :
                                      d \in call.to_datetime},
                        walletId |-> call.wallet_id \ {""},
                        destinationWalletId |-> call.destination_wallet_id \ {""},
                        sourceWalletId |-> call.source_wallet_id \ {""},
                        pageSize |-> call.page_size \ {0}],
            body |-> <<>>]
      [] call.op = "get_transfer" ->
           [method |-> "GET", path |-> <<ApiUrl, "transfers", call.transfer_id>>,
            params |-> NoArgs, body |-> <<>>]
      [] call.op = "create_transfer" ->
           [method |-> "POST", path |-> <<ApiUrl, "transfers">>,
            params |-> NoArgs,
            body |-> <<call.idempotency_key, "wallet", WalletId, "blockchain",
                       call.account, "XLM",
                       IF call.memo = {} THEN "" ELSE CHOOSE m \in call.memo : TRUE,
                       call.amount, "USD">>]
      [] call.op = "get_wallet" ->
           [method |-> "GET", path |-> <<ApiUrl, "wallets", WalletId>>,
            params |-> NoArgs, body |-> <<>>]
      [] call.op = "create_address" ->
           [method |-> "POST",
            path |-> <<ApiUrl, "wallets", WalletId, "addresses">>,
            params |-> NoArgs,
            body |-> <<call.idempotency_key, "USD", "XLM">>]

Creates == {"create_transfer", "create_address"}
TheTimeout == CHOOSE t \in config.timeout : TRUE

\* A filter is supplied when the argument holds a value that is not empty.
Supplied(opt) == \E v \in opt : v # ""

\* C1: whenever get_transfers is called with a wallet filter and a source or
\* destination filter, the call is over with a ValueError (the parameter
\* conflict) and the session has not been used: no attempt, no request.
C1_ConflictFailsBeforeNetwork ==
    (cur.op = "get_transfers"
     /\ Supplied(cur.wallet_id)
     /\ (Supplied(cur.destination_wallet_id) \/ Supplied(cur.source_wallet_id)))
    => /\ pc = "done"
       /\ result = [kind |-> "raised", what |-> "ValueError"]
       /\ attempts = 0 /\ hops = 0 /\ posted = {} /\ req = NoReq

C1_Witness ==
    /\ pc = "done"
    /\ cur.op = "get_transfers"
    /\ cur.wallet_id = {"w1"}
    /\ cur.source_wallet_id = {"s1"}
    /\ cur.destination_wallet_id = {}
    /\ result.what = "ValueError"
    /\ attempts = 0

\* C2 as stated: with a transport that fails the first two attempts and
\* succeeds the third, and a configured retry count of two or more, every
\* operation returns the successful result after exactly 3 attempts.
C2_ThirdAttemptSucceeds ==
    (pc = "done" /\ plan = "two_then_ok" /\ config.num_retries >= 2)
    => /\ result = [kind |-> "returned", what |-> "2xx"]
       /\ attempts = 3

\* C2 amended: the same, for a client whose session the constructor built
\* (no session injected), the only case in which the configured retry policy
\* is mounted.
C2_ThirdAttemptSucceedsOwnSession ==
    (pc = "done" /\ plan = "two_then_ok" /\ config.num_retries >= 2
     /\ ~session.injected)
    => /\ result = [kind |-> "returned", what |-> "2xx"]
       /\ attempts = 3

C2_Witness ==
    /\ pc = "done"
    /\ plan = "two_then_ok"
    /\ ~session.injected
    /\ config.num_retries >= 2
    /\ cur.op = "create_transfer"
    /\ attempts = 3
    /\ result.kind = "returned"

\* C3 as stated: with a transport that always fails to connect, the operation
\* never returns a value; it raises the transport error, after a number of
\* attempts bounded by the configured retry count (num_retries retries of the
\* first attempt).
C3_ExhaustedRetriesRaise ==
    /\ plan = "dead" => result.kind # "returned"
    /\ (pc = "done" /\ plan = "dead")
       => /\ result = [kind |-> "raised", what |-> "ConnectionError"]
          /\ attempts <= config.num_retries + 1

\* C3 amended: with any session the operation never returns a value and
\* raises the transport error; with the session the constructor built it does
\* so after exactly num_retries + 1 attempts.
C3_ExhaustedRetriesRaiseOwnSession ==
    /\ plan = "dead" => result.kind # "returned"
    /\ (pc = "done" /\ plan = "dead")
       => /\ result = [kind |-> "raised", what |-> "ConnectionError"]
          /\ ~session.injected => attempts = config.num_retries + 1

C3_Witness ==
    /\ pc = "done"
    /\ plan = "dead"
    /\ ~session.injected
    /\ config.num_retries = MaxRetries
    /\ attempts = MaxRetries + 1
    /\ result.what = "ConnectionError"

\* C4: a response with a non-2xx status ends the call at once: the request is
\* not sent again, nothing else is requested, and the caller gets that
\* response's parsed body (or the parse error of a body that is not JSON).
C4_StatusEndsTheCall ==
    [][(RespondsError \/ Redirects \/ RetryAfter)
       => (pc' = "done"
           /\ result' \in {[kind |-> "returned", what |-> "4xx"],
                           [kind |-> "returned", what |-> "3xx"],
                           [kind |-> "returned", what |-> "503"],
                           [kind |-> "raised", what |-> "JSONDecodeError"]})]_vars

\* C5: every POST attempt of a create carries the caller's idempotency key and
\* the one payload built from the call's arguments, and a call creates at most
\* one resource at a remote service that deduplicates by idempotency key.
C5_SameKeyOnEveryAttempt ==
    cur.op \in Creates
    => /\ \A e \in posted :
             /\ e[2][1] = cur.idempotency_key
             /\ e[1] = ExpectedRequest(cur).path
             /\ e[2] = ExpectedRequest(cur).body
       /\ made <= 1
       /\ made = 1 => cur.idempotency_key \in store

\* A create whose first attempt was processed but never answered, and which
\* was sent again with the same key.
C5_Witness ==
    /\ pc = "done"
    /\ cur.op = "create_transfer"
    /\ hops = 0
    /\ attempts >= 2
    /\ windows # {}
    /\ made = 1
    /\ result = [kind |-> "returned", what |-> "2xx"]

\* C6: once the with block is left, session.close() has been called, and the
\* exception that left the block (or none) is what the block's caller sees.
C6_ScopeExitCloses ==
    scope = "left" => (closed /\ caller.seen = caller.raised)

C6_Witness ==
    /\ scope = "left"
    /\ closed
    /\ caller.raised = "ConnectionError"
    /\ caller.seen = "ConnectionError"

\* C7: an operation called after close() puts nothing on the wire and ends by
\* raising an error.
C7_UseAfterCloseFails ==
    (closed /\ pc # "idle")
    => /\ attempts = 0 /\ hops = 0
       /\ pc = "done" => result.kind = "raised"

\* C8: with the session the constructor built, no redirect is ever followed:
\* no request goes to a redirect's Location.
C8_NoRedirectFollowed ==
    ~session.injected => (hops = 0 /\ req.path # <<"Location">>)

\* C9 as stated: an attempt that waits for the remote service always has the
\* configured duration as its ceiling, a full window of its own.
C9_EveryWaitHasCeiling ==
    /\ pc = "waiting" => (config.timeout # {} /\ waited <= TheTimeout)
    /\ \A w \in windows : config.timeout # {} /\ w = TheTimeout

\* C9 amended: when a timeout is configured (it is not None), no attempt waits
\* longer than it, an attempt that has waited that long times out, and every
\* attempt that timed out, retries included, had the full duration to itself.
C9_ConfiguredTimeoutIsPerAttempt ==
    config.timeout # {}
    => /\ pc = "waiting" => waited <= TheTimeout
       /\ (pc = "waiting" /\ waited = TheTimeout) => ENABLED TimesOut
       /\ \A w \in windows : w = TheTimeout

\* A retry, after an attempt that timed out, has waited its own full window.
C9_Witness ==
    /\ config.timeout # {}
    /\ pc = "waiting"
    /\ attempts >= 2
    /\ windows = {TheTimeout}
    /\ waited = TheTimeout

\* C10: no step changes the configuration, and the request an operation
\* builds is the one its arguments and the constructor's arguments give.
C10_ConfigIsImmutable ==
    [][/\ config' = config
       /\ (pc = "idle" /\ pc' = "send") => req' = ExpectedRequest(cur')]_vars

\* An operation that failed, after an earlier operation created a resource,
\* with the configuration as constructed.
C10_Witness ==
    /\ pc = "done"
    /\ cur.op = "get_wallet"
    /\ result.kind = "raised"
    /\ store # {}
    /\ config.wallet_id = WalletId
    /\ config.url = ApiUrl

====
